---- MODULE Spec2Model ----
(***************************************************************************)
(* License activation service: license_core.py (store, hasher, rate        *)
(* limiter, POST /v1/activate) driven by the admin commands of             *)
(* bot_worker.py.  Strings are sequences of one-character strings, SQL     *)
(* NULL / Python None is the empty sequence and a present value v is <<v>>.*)
(* Handlers are split at their await points: every store statement is one  *)
(* atomic step, the Python code between two awaits runs without            *)
(* interleaving (single asyncio event loop).                               *)
(***************************************************************************)
EXTENDS Integers, Sequences, FiniteSets, TLC

VARIABLES now, db, seq, rate, req, adm, hin, hout

vars == <<now, db, seq, rate, req, adm, hin, hout>>

(***************************************************************************)
(* Bounds of the model                                                     *)
(***************************************************************************)
MaxTime == 2
MaxId == 2
MaxExpire == 5

(***************************************************************************)
(* Program constants                                                       *)
(***************************************************************************)
RATE_LIMIT_WINDOW == 60
RATE_LIMIT_MAX == 60
MinKeyLen == 10
MaxKeyLen == 128
MinHwidLen == 16
MaxHwidLen == 128
GroupLen == 5

None == <<>>
Some(v) == <<v>>
IsNone(o) == o = <<>>
Val(o) == o[1]

Max(a, b) == IF a >= b THEN a ELSE b

(***************************************************************************)
(* Strings                                                                 *)
(***************************************************************************)
Rep(c, n) == [i \in 1..n |-> c]

LowerLetters == <<"a", "b", "c", "d", "h", "x">>
UpperLetters == <<"A", "B", "C", "D", "H", "X">>

IsSpace(c) == c \in {" ", "\t", "\n"}

UpperChar(c) ==
    IF \E i \in 1..Len(LowerLetters) : LowerLetters[i] = c
    THEN UpperLetters[CHOOSE i \in 1..Len(LowerLetters) : LowerLetters[i] = c]
    ELSE c

LowerChar(c) ==
    IF \E i \in 1..Len(UpperLetters) : UpperLetters[i] = c
    THEN LowerLetters[CHOOSE i \in 1..Len(UpperLetters) : UpperLetters[i] = c]
    ELSE c

\* str.upper() / str.lower()
Upper(s) == [i \in 1..Len(s) |-> UpperChar(s[i])]
Lower(s) == [i \in 1..Len(s) |-> LowerChar(s[i])]

RECURSIVE LStrip(_)
LStrip(s) == IF s # <<>> /\ IsSpace(Head(s)) THEN LStrip(Tail(s)) ELSE s

RECURSIVE RStrip(_)
RStrip(s) ==
    IF s # <<>> /\ IsSpace(s[Len(s)]) THEN RStrip(SubSeq(s, 1, Len(s) - 1)) ELSE s

\* str.strip()
Strip(s) == RStrip(LStrip(s))

(***************************************************************************)
(* Credential hasher                                                       *)
(***************************************************************************)
PEPPER_BYTES == <<"pepper">>

\* SHA-256 is modelled as an injective function of its input bytes.
sha256_hex(b) == [sha256 |-> b]

normalize_key(k) == Upper(Strip(k))

hash_license_key(license_key) == sha256_hex(PEPPER_BYTES \o Strip(license_key))

hash_hwid(hwid) == sha256_hex(PEPPER_BYTES \o Strip(hwid))

(***************************************************************************)
(* Key generator: "DBX-" and five groups of five symbols of the alphabet.  *)
(* g is the sequence of the five symbols drawn (one per group here: the    *)
(* random source is narrowed to repeating one symbol within a group).      *)
(***************************************************************************)
Alphabet == {"A", "B", "H", "X", "2"}

RECURSIVE JoinGroups(_)
JoinGroups(g) ==
    IF Len(g) = 0 THEN <<>>
    ELSE IF Len(g) = 1 THEN Rep(g[1], GroupLen)
    ELSE Rep(g[1], GroupLen) \o <<"-">> \o JoinGroups(Tail(g))

generate_license_key(g) == <<"D", "B", "X", "-">> \o JoinGroups(g)

\* The draws of the random source the model explores.
GenDraws == { <<"A", "A", "A", "A", "A">> }

(***************************************************************************)
(* Inputs the model explores                                               *)
(***************************************************************************)
Reqs == {"r1", "r2"}
Admins == {"a1", "a2"}
Ips == {"ip1", "ip2"}
MainIps == {"ip1"}
AdminIds == {1}

K1 == generate_license_key(<<"A", "A", "A", "A", "A">>)
\* K1 as a user may type it: lower case, surrounded by blanks
K1Typed == <<" ">> \o Lower(K1) \o <<" ", " ">>
H1 == Rep("a", MinHwidLen)
H1Typed == <<" ">> \o Rep("A", MinHwidLen) \o <<" ">>
H2 == Rep("b", MinHwidLen)

Body(k, h) == [valid_json |-> TRUE, license_key |-> k, hwid |-> h]
BadJson == [valid_json |-> FALSE, license_key |-> <<>>, hwid |-> <<>>]

Bodies ==
    { BadJson,
      Body(K1, H1), Body(K1, H2), Body(K1Typed, H1Typed),
      Body(<<>>, H1),
      Body(Rep("x", MinKeyLen - 1), H1),
      Body(Rep("x", MinKeyLen), H1),
      Body(Rep("X", MaxKeyLen), Rep("h", MaxHwidLen)),
      Body(<<" ">> \o Rep("X", MaxKeyLen + 1), H1),
      Body(K1, Rep("a", MinHwidLen - 1)),
      Body(K1, Rep("a", MaxHwidLen + 1) \o <<" ">>) }

\* bodies of the second of two overlapping requests
CoreBodies == { Body(K1, H1), Body(K1, H2) }

\* bodies of the requests of the rate limiter's specification
RateBodies == { BadJson, Body(K1, H1), Body(Rep("x", MinKeyLen - 1), H1) }

AdminKeys == { K1Typed, Rep("x", MinKeyLen) }
AddSeconds == {1, 2}
Durations == {1}

(***************************************************************************)
(* License store: table licenses                                           *)
(***************************************************************************)
Row(id, lhash, created_at, created_by, expires_at) ==
    [id |-> id, license_hash |-> lhash, created_at |-> created_at,
     created_by |-> created_by, expires_at |-> expires_at, revoked |-> FALSE,
     hwid_hash |-> None, last_seen_at |-> None]

\* SELECT ... FROM licenses WHERE license_hash=? ; fetchone()
fetchone(table, lhash) ==
    IF \E x \in table : x.license_hash = lhash
    THEN Some(CHOOSE x \in table : x.license_hash = lhash)
    ELSE None

\* UPDATE licenses SET revoked=? WHERE license_hash=?
update_revoked(table, lhash, revoked) ==
    { IF x.license_hash = lhash THEN [x EXCEPT !.revoked = revoked] ELSE x : x \in table }

\* DELETE FROM licenses WHERE license_hash=?
delete_row(table, lhash) == { x \in table : x.license_hash # lhash }

\* UPDATE licenses SET expires_at=? WHERE license_hash=?
update_expires(table, lhash, new_exp) ==
    { IF x.license_hash = lhash THEN [x EXCEPT !.expires_at = Some(new_exp)] ELSE x
      : x \in table }

\* update_reset_hwid without its WHERE clause
update_reset_hwid_everywhere(table, lhash) ==
    { [x EXCEPT !.hwid_hash = None] : x \in table }

\* UPDATE licenses SET hwid_hash=NULL WHERE license_hash=?
update_reset_hwid(table, lhash) ==
    { IF x.license_hash = lhash THEN [x EXCEPT !.hwid_hash = None] ELSE x : x \in table }

\* update_bind without its WHERE clause
update_bind_everywhere(table, lic_id, hh, t) ==
    { [x EXCEPT !.hwid_hash = Some(hh), !.last_seen_at = Some(t)] : x \in table }

\* UPDATE licenses SET hwid_hash=?, last_seen_at=? WHERE id=?
update_bind(table, lic_id, hh, t) ==
    { IF x.id = lic_id THEN [x EXCEPT !.hwid_hash = Some(hh), !.last_seen_at = Some(t)]
      ELSE x : x \in table }

\* update_seen that also makes the license it refreshes a lifetime license
update_seen_renewing(table, lic_id, t) ==
    { IF x.id = lic_id THEN [x EXCEPT !.last_seen_at = Some(t), !.expires_at = None] ELSE x
      : x \in table }

\* UPDATE licenses SET last_seen_at=? WHERE id=?
update_seen(table, lic_id, t) ==
    { IF x.id = lic_id THEN [x EXCEPT !.last_seen_at = Some(t)] ELSE x : x \in table }

\* cur.rowcount of an UPDATE / DELETE ... WHERE license_hash=?
rowcount(table, lhash) == Cardinality({ x \in table : x.license_hash = lhash })

(***************************************************************************)
(* Rate limiter                                                            *)
(***************************************************************************)
\* _rate.get(ip, (0, t + RATE_LIMIT_WINDOW))
rate_get(table, ip, t) ==
    IF ip \in DOMAIN table THEN table[ip]
    ELSE [count |-> 0, reset |-> t + RATE_LIMIT_WINDOW]

\* rate_limit_ok with a refused request counted and its window restarted
rate_limit_ok_refusal_counted(entry, t) ==
    IF t > entry.reset
    THEN [ok |-> TRUE, entry |-> [count |-> 1, reset |-> t + RATE_LIMIT_WINDOW]]
    ELSE IF entry.count >= RATE_LIMIT_MAX
    THEN [ok |-> FALSE, entry |-> [count |-> entry.count + 1,
                                   reset |-> t + RATE_LIMIT_WINDOW]]
    ELSE [ok |-> TRUE, entry |-> [count |-> entry.count + 1, reset |-> entry.reset]]

\* rate_limit_ok letting one request more through before it refuses
rate_limit_ok_one_more(entry, t) ==
    IF t > entry.reset
    THEN [ok |-> TRUE, entry |-> [count |-> 1, reset |-> t + RATE_LIMIT_WINDOW]]
    ELSE IF entry.count > RATE_LIMIT_MAX
    THEN [ok |-> FALSE, entry |-> [count |-> entry.count, reset |-> entry.reset]]
    ELSE [ok |-> TRUE, entry |-> [count |-> entry.count + 1, reset |-> entry.reset]]

\* rate_limit_ok on the entry of one source: the verdict and the entry stored
rate_limit_ok(entry, t) ==
    IF t > entry.reset
    THEN [ok |-> TRUE, entry |-> [count |-> 1, reset |-> t + RATE_LIMIT_WINDOW]]
    ELSE IF entry.count >= RATE_LIMIT_MAX
    THEN [ok |-> FALSE, entry |-> [count |-> entry.count, reset |-> entry.reset]]
    ELSE [ok |-> TRUE, entry |-> [count |-> entry.count + 1, reset |-> entry.reset]]

\* rate_put forgetting the entries of the other sources
rate_put_alone(table, ip, entry) == [x \in {ip} |-> entry]

\* _rate[ip] = entry
rate_put(table, ip, entry) ==
    [x \in DOMAIN table \cup {ip} |-> IF x = ip THEN entry ELSE table[x]]

(***************************************************************************)
(* POST /v1/activate.  req[r] holds the locals of handler r; a handler     *)
(* that has returned keeps the locals it returned with and its response.   *)
(***************************************************************************)
Fail(status, message) == [status |-> status, ok |-> FALSE, message |-> message]
Ok(expires_at) == [status |-> 200, ok |-> TRUE, expires_at |-> expires_at, bound |-> TRUE]

IdleReq ==
    [pc |-> "idle", body |-> None, lhash |-> None, hh |-> None,
     t |-> None, row |-> None, resp |-> None]

Done(resp) == [IdleReq EXCEPT !.pc = "done", !.resp = Some(resp)]

\* lengths_ok with the bounds themselves refused (a slip of < for <=)
lengths_ok_exclusive(license_key, hwid) ==
    /\ ~(Len(license_key) <= MinKeyLen \/ Len(license_key) >= MaxKeyLen)
    /\ ~(Len(hwid) <= MinHwidLen \/ Len(hwid) >= MaxHwidLen)

\* the length checks of the normalized key and hwid
lengths_ok(license_key, hwid) ==
    /\ ~(Len(license_key) < MinKeyLen \/ Len(license_key) > MaxKeyLen)
    /\ ~(Len(hwid) < MinHwidLen \/ Len(hwid) > MaxHwidLen)

\* activate_decide without the comparison of the bound hwid
activate_decide_any_device(row, hh, t) ==
    IF IsNone(row) THEN "invalid"
    ELSE IF Val(row).revoked THEN "invalid"
    ELSE IF ~IsNone(Val(row).expires_at) /\ Val(Val(row).expires_at) < t THEN "expired"
    ELSE IF IsNone(Val(row).hwid_hash) THEN "bind"
    ELSE "seen"

\* activate_decide with expiry checked before revocation
activate_decide_expiry_first(row, hh, t) ==
    IF IsNone(row) THEN "invalid"
    ELSE IF ~IsNone(Val(row).expires_at) /\ Val(Val(row).expires_at) < t THEN "expired"
    ELSE IF Val(row).revoked THEN "invalid"
    ELSE IF IsNone(Val(row).hwid_hash) THEN "bind"
    ELSE IF Val(Val(row).hwid_hash) # hh THEN "hwid_mismatch"
    ELSE "seen"

\* activate_decide with a license expiring in its last second (<= for <)
activate_decide_expired_le(row, hh, t) ==
    IF IsNone(row) THEN "invalid"
    ELSE IF Val(row).revoked THEN "invalid"
    ELSE IF ~IsNone(Val(row).expires_at) /\ Val(Val(row).expires_at) <= t THEN "expired"
    ELSE IF IsNone(Val(row).hwid_hash) THEN "bind"
    ELSE IF Val(Val(row).hwid_hash) # hh THEN "hwid_mismatch"
    ELSE "seen"

\* activate_decide sending a revoked license through the other checks, so
\* that its answer tells it from an unknown key
activate_decide_revoked_told(row, hh, t) ==
    IF IsNone(row) THEN "invalid"
    ELSE IF ~IsNone(Val(row).expires_at) /\ Val(Val(row).expires_at) < t THEN "expired"
    ELSE IF ~IsNone(Val(row).hwid_hash) /\ Val(Val(row).hwid_hash) # hh THEN "hwid_mismatch"
    ELSE IF Val(row).revoked THEN "invalid"
    ELSE IF IsNone(Val(row).hwid_hash) THEN "bind"
    ELSE "seen"

\* what the handler does with the row it fetched (None: no row)
activate_decide(row, hh, t) ==
    IF IsNone(row) THEN "invalid"
    ELSE IF Val(row).revoked THEN "invalid"
    ELSE IF ~IsNone(Val(row).expires_at) /\ Val(Val(row).expires_at) < t THEN "expired"
    ELSE IF IsNone(Val(row).hwid_hash) THEN "bind"
    ELSE IF Val(Val(row).hwid_hash) # hh THEN "hwid_mismatch"
    ELSE "seen"

\* the columns the handler selects: id, expires_at, revoked, hwid_hash
select_columns(row) ==
    IF IsNone(row) THEN None
    ELSE Some([lic_id |-> Val(row).id, expires_at |-> Val(row).expires_at,
               revoked |-> Val(row).revoked, bound_hwid |-> Val(row).hwid_hash])

\* Begin with the body looked at first: malformed JSON is answered before the
\* rate limit gate
Begin_parse_first(r, ip, body) ==
    /\ req[r].pc \in {"idle", "done"}
    /\ LET rl == rate_limit_ok(rate_get(rate, ip, now), now) IN
        IF ~body.valid_json
        THEN /\ rate' = rate
             /\ req' = [req EXCEPT ![r] =
                          [Done(Fail(400, "bad_json")) EXCEPT !.body = Some(body)]]
        ELSE /\ rate' = rate_put(rate, ip, rl.entry)
             /\ req' = [req EXCEPT ![r] =
                          IF rl.ok
                          THEN [IdleReq EXCEPT !.pc = "json", !.body = Some(body)]
                          ELSE [Done(Fail(429, "rate_limited")) EXCEPT !.body = Some(body)]]
    /\ UNCHANGED <<now, db, seq, adm, hin, hout>>

\* the request arrives: rate limit gate
Begin(r, ip, body) ==
    /\ req[r].pc \in {"idle", "done"}
    /\ LET rl == rate_limit_ok(rate_get(rate, ip, now), now) IN
        /\ rate' = rate_put(rate, ip, rl.entry)
        /\ req' = [req EXCEPT ![r] =
                     IF rl.ok
                     THEN [IdleReq EXCEPT !.pc = "json", !.body = Some(body)]
                     ELSE [Done(Fail(429, "rate_limited")) EXCEPT !.body = Some(body)]]
    /\ UNCHANGED <<now, db, seq, adm, hin, hout>>

\* await request.json() returns; normalization, length checks, hashing, t = now_ts()
ParseBody(r) ==
    /\ req[r].pc = "json"
    /\ LET body == Val(req[r].body)
           license_key == normalize_key(body.license_key)
           hwid == Lower(Strip(body.hwid))
       IN req' = [req EXCEPT ![r] =
                    IF ~body.valid_json
                    THEN [@ EXCEPT !.pc = "done", !.resp = Some(Fail(400, "bad_json"))]
                    ELSE IF ~lengths_ok(license_key, hwid)
                    THEN [@ EXCEPT !.pc = "done", !.resp = Some(Fail(401, "invalid"))]
                    ELSE [IdleReq EXCEPT !.pc = "select",
                                         !.lhash = Some(hash_license_key(license_key)),
                                         !.hh = Some(hash_hwid(hwid)),
                                         !.t = Some(now)]]
    /\ UNCHANGED <<now, db, seq, rate, adm, hin, hout>>

\* SELECT id, expires_at, revoked, hwid_hash ... fetchone(), and the checks on the row
Select(r) ==
    /\ req[r].pc = "select"
    /\ LET row == fetchone(db, Val(req[r].lhash))
           d == activate_decide(row, Val(req[r].hh), Val(req[r].t))
       IN req' = [req EXCEPT ![r] =
                    IF d \in {"invalid", "expired", "hwid_mismatch"}
                    THEN [@ EXCEPT !.pc = "done", !.row = select_columns(row),
                                   !.resp = Some(Fail(401, d))]
                    ELSE [@ EXCEPT !.pc = d, !.row = select_columns(row)]]
    /\ UNCHANGED <<now, db, seq, rate, adm, hin, hout>>

\* UPDATE licenses SET hwid_hash=?, last_seen_at=? WHERE id=? ; commit ; 200
UpdateBind(r) ==
    /\ req[r].pc = "bind"
    /\ db' = update_bind(db, Val(req[r].row).lic_id, Val(req[r].hh), Val(req[r].t))
    /\ req' = [req EXCEPT ![r].pc = "done",
                          ![r].resp = Some(Ok(Val(req[r].row).expires_at))]
    /\ UNCHANGED <<now, seq, rate, adm, hin, hout>>

\* UPDATE licenses SET last_seen_at=? WHERE id=? ; commit ; 200
UpdateSeen(r) ==
    /\ req[r].pc = "seen"
    /\ db' = update_seen(db, Val(req[r].row).lic_id, Val(req[r].t))
    /\ req' = [req EXCEPT ![r].pc = "done",
                          ![r].resp = Some(Ok(Val(req[r].row).expires_at))]
    /\ UNCHANGED <<now, seq, rate, adm, hin, hout>>

(***************************************************************************)
(* Admin operations on the store.  adm[a] is the position of admin         *)
(* command a: the locals of a db_add_time between its SELECT and its       *)
(* UPDATE, and what the command's store call returned.                     *)
(***************************************************************************)
IdleAdm ==
    [pc |-> "idle", op |-> "", lhash |-> None, add_seconds |-> None, row |-> None,
     new_exp |-> None, ret |-> None]

Returned(op, v) == [IdleAdm EXCEPT !.pc = "done", !.op = op, !.ret = Some(v)]

\* str(new_exp)
str(n) == ToString(n)

\* db_create_license: generate, hash, INSERT (license_hash is UNIQUE), commit
db_create_license(a, expires_at, created_by, g) ==
    /\ adm[a].pc \in {"idle", "done"}
    /\ seq < MaxId
    /\ LET key == generate_license_key(g)
           lhash == hash_license_key(key)
       IN IF ~IsNone(fetchone(db, lhash))
          THEN /\ adm' = [adm EXCEPT ![a] = Returned("create", [raised |-> "IntegrityError", key |-> None])]
               /\ UNCHANGED <<db, seq>>
          ELSE /\ db' = db \cup {Row(seq + 1, lhash, now, created_by, expires_at)}
               /\ seq' = seq + 1
               /\ adm' = [adm EXCEPT ![a] = Returned("create", [raised |-> "", key |-> Some(key)])]
    /\ UNCHANGED <<now, rate, req, hin, hout>>

\* db_set_revoked
db_set_revoked(a, license_key, revoked) ==
    /\ adm[a].pc \in {"idle", "done"}
    /\ LET lhash == hash_license_key(license_key) IN
        /\ db' = update_revoked(db, lhash, revoked)
        /\ adm' = [adm EXCEPT ![a] = Returned("set_revoked", rowcount(db, lhash) > 0)]
    /\ UNCHANGED <<now, seq, rate, req, hin, hout>>

\* db_delete_license
db_delete_license(a, license_key) ==
    /\ adm[a].pc \in {"idle", "done"}
    /\ LET lhash == hash_license_key(license_key) IN
        /\ db' = delete_row(db, lhash)
        /\ adm' = [adm EXCEPT ![a] = Returned("delete", rowcount(db, lhash) > 0)]
    /\ UNCHANGED <<now, seq, rate, req, hin, hout>>

\* db_reset_hwid
db_reset_hwid(a, license_key) ==
    /\ adm[a].pc \in {"idle", "done"}
    /\ LET lhash == hash_license_key(license_key) IN
        /\ db' = update_reset_hwid(db, lhash)
        /\ adm' = [adm EXCEPT ![a] = [Returned("reset_hwid", rowcount(db, lhash) > 0)
                                         EXCEPT !.lhash = Some(lhash)]]
    /\ UNCHANGED <<now, seq, rate, req, hin, hout>>

\* base + add_seconds with the stored expiry as the base, expired or not
add_time_new_exp_banked(expires_at, t, add_seconds) == expires_at + add_seconds

\* base = max(int(expires_at), now_ts()) ; new_exp = base + int(add_seconds)
add_time_new_exp(expires_at, t, add_seconds) == Max(expires_at, t) + add_seconds

\* add_time_outcome with a license without expiry reported as not found
add_time_outcome_lifetime_unknown(row) ==
    IF IsNone(row) \/ IsNone(Val(row).expires_at) THEN "not_found" ELSE "update"

\* the two early returns of db_add_time on the row its SELECT fetched
add_time_outcome(row) ==
    IF IsNone(row) THEN "not_found"
    ELSE IF IsNone(Val(row).expires_at) THEN "lifetime_noop"
    ELSE "update"

\* db_add_time up to its UPDATE: SELECT expires_at, the two early returns, new_exp
db_add_time_select(a, license_key, add_seconds) ==
    /\ adm[a].pc \in {"idle", "done"}
    /\ LET lhash == hash_license_key(license_key)
           row == fetchone(db, lhash)
           outcome == add_time_outcome(row)
           locals == [IdleAdm EXCEPT !.op = "add_time", !.lhash = Some(lhash),
                                     !.add_seconds = Some(add_seconds),
                                     !.row = IF IsNone(row) THEN None
                                             ELSE Some([expires_at |-> Val(row).expires_at])]
       IN adm' = [adm EXCEPT ![a] =
                    IF outcome = "not_found"
                    THEN [locals EXCEPT !.pc = "done", !.ret = Some(<<FALSE, "not_found">>)]
                    ELSE IF outcome = "lifetime_noop"
                    THEN [locals EXCEPT !.pc = "done", !.ret = Some(<<TRUE, "lifetime_noop">>)]
                    ELSE [locals EXCEPT !.pc = "update",
                                        !.new_exp = Some(add_time_new_exp(
                                            Val(Val(row).expires_at), now, add_seconds))]]
    /\ UNCHANGED <<now, db, seq, rate, req, hin, hout>>

\* db_add_time: UPDATE licenses SET expires_at=? WHERE license_hash=? ; commit ; return
db_add_time_update(a) ==
    /\ adm[a].pc = "update"
    /\ db' = update_expires(db, Val(adm[a].lhash), Val(adm[a].new_exp))
    /\ adm' = [adm EXCEPT ![a] = [@ EXCEPT !.pc = "done",
                                           !.ret = Some(<<TRUE, str(Val(adm[a].new_exp))>>)]]
    /\ UNCHANGED <<now, seq, rate, req, hin, hout>>

\* the clock
Tick ==
    /\ now < MaxTime
    /\ now' = now + 1
    /\ UNCHANGED <<db, seq, rate, req, adm, hin, hout>>

(***************************************************************************)
(* The service                                                             *)
(***************************************************************************)
Init ==
    /\ now = 0
    /\ db = {}
    /\ seq = 0
    /\ rate = [x \in {} |-> [count |-> 0, reset |-> 0]]
    /\ req = [r \in Reqs |-> IdleReq]
    /\ adm = [a \in Admins |-> IdleAdm]
    /\ hin = None
    /\ hout = None

(***************************************************************************)
(* The hasher applied to a pair of raw inputs (hin), digests in hout       *)
(***************************************************************************)
RawInputs ==
    { <<" ", "a", "b", "c", " ">>, <<"A", "B", "C">>, <<"a", "b", "c">>,
      <<"A", "b", "C", "\t">>, <<"a", "b", "d">>, <<"a", " ", "b", "c">>,
      <<"A", "A", ":", "B", "B">>, <<" ", "a", "a", ":", "b", "b", " ">>,
      <<"a", "a", ":", "b", "b">>, <<>> }

InitHash ==
    /\ now = 0
    /\ db = {}
    /\ seq = 0
    /\ rate = [x \in {} |-> [count |-> 0, reset |-> 0]]
    /\ req = [r \in Reqs |-> IdleReq]
    /\ adm = [a \in Admins |-> IdleAdm]
    /\ hin \in { Some([a |-> x, b |-> y]) : x \in RawInputs, y \in RawInputs }
    /\ hout = None

\* hash_license_key on both inputs
HashKeys ==
    /\ hout = None
    /\ hout' = Some([fn |-> "hash_license_key",
                     a |-> hash_license_key(Val(hin).a),
                     b |-> hash_license_key(Val(hin).b)])
    /\ UNCHANGED <<now, db, seq, rate, req, adm, hin>>

\* hash_hwid on both inputs
HashHwids ==
    /\ hout = None
    /\ hout' = Some([fn |-> "hash_hwid",
                     a |-> hash_hwid(Val(hin).a),
                     b |-> hash_hwid(Val(hin).b)])
    /\ UNCHANGED <<now, db, seq, rate, req, adm, hin>>

\* the activation handler's pipeline on both inputs taken as keys:
\* normalize_key, then hash_license_key
HashActivateKeys ==
    /\ hout = None
    /\ hout' = Some([fn |-> "activate_key",
                     a |-> hash_license_key(normalize_key(Val(hin).a)),
                     b |-> hash_license_key(normalize_key(Val(hin).b))])
    /\ UNCHANGED <<now, db, seq, rate, req, adm, hin>>

\* the activation handler's pipeline on both inputs taken as hwids:
\* strip().lower(), then hash_hwid
HashActivateHwids ==
    /\ hout = None
    /\ hout' = Some([fn |-> "activate_hwid",
                     a |-> hash_hwid(Lower(Strip(Val(hin).a))),
                     b |-> hash_hwid(Lower(Strip(Val(hin).b)))])
    /\ UNCHANGED <<now, db, seq, rate, req, adm, hin>>

\* POST /v1/activate, each handler serving one request; the second handler
\* only carries the bodies of a competing activation
ApiActivate(r) ==
    \/ \E ip \in MainIps, body \in (IF r = "r1" THEN Bodies ELSE CoreBodies) :
          /\ req[r].pc = "idle"
          /\ Begin(r, ip, body)
    \/ ParseBody(r)
    \/ Select(r)
    \/ UpdateBind(r)
    \/ UpdateSeen(r)

\* /lic_gen
LicGen(a) ==
    \E g \in GenDraws, by \in AdminIds :
        \E exp \in {None} \cup { Some(now + d) : d \in Durations } :
            db_create_license(a, exp, by, g)

\* /lic_revoke, /lic_unrevoke
LicRevoke(a) == \E k \in {K1Typed}, v \in BOOLEAN : db_set_revoked(a, normalize_key(k), v)

\* /lic_delete
LicDelete(a) == \E k \in AdminKeys : db_delete_license(a, normalize_key(k))

\* /lic_reset_hwid
LicResetHwid(a) == \E k \in AdminKeys : db_reset_hwid(a, normalize_key(k))

\* /lic_addtime
LicAddTime(a) ==
    \/ \E k \in AdminKeys, s \in AddSeconds :
          /\ db_add_time_select(a, normalize_key(k), s)
          /\ adm'[a].pc = "update" => Val(adm'[a].new_exp) <= MaxExpire
    \/ db_add_time_update(a)

\* the whole service
Next ==
    \/ \E r \in Reqs : ApiActivate(r)
    \/ \E a \in Admins : LicGen(a)
    \/ \E a \in Admins : LicRevoke(a)
    \/ \E a \in Admins : LicDelete(a)
    \/ \E a \in Admins : LicResetHwid(a)
    \/ \E a \in Admins : LicAddTime(a)
    \/ Tick

Spec == Init /\ [][Next]_vars

\* Activations of a license that is created, revoked and unrevoked, and ages
NextActivate ==
    \/ \E r \in Reqs : ApiActivate(r)
    \/ LicGen("a1")
    \/ LicRevoke("a1")
    \/ Tick

SpecActivate == Init /\ [][NextActivate]_vars

\* /lic_addtime on a license that is created, bound, deleted and created again
\* by another admin command
NextAddTime ==
    \/ \E body \in {Body(K1, H1)} : req["r1"].pc = "idle" /\ Begin("r1", "ip1", body)
    \/ ParseBody("r1")
    \/ Select("r1")
    \/ UpdateBind("r1")
    \/ LicGen("a2")
    \/ LicDelete("a2")
    \/ LicAddTime("a1")
    \/ Tick

SpecAddTime == Init /\ [][NextAddTime]_vars

\* two /lic_addtime commands in flight on the license one of them created
NextAddTimeRace ==
    \/ LicGen("a1")
    \/ \E a \in Admins : LicAddTime(a)
    \/ Tick

SpecAddTimeRace == Init /\ [][NextAddTimeRace]_vars

\* /lic_reset_hwid between two activations that follow one another: the second
\* request arrives when the first has been answered
NextReset ==
    \/ \E body \in {Body(K1, H1)} : req["r1"].pc = "idle" /\ Begin("r1", "ip1", body)
    \/ \E body \in CoreBodies :
          /\ req["r2"].pc = "idle"
          /\ req["r1"].pc = "done"
          /\ Begin("r2", "ip1", body)
    \/ \E r \in Reqs : ParseBody(r)
    \/ \E r \in Reqs : Select(r)
    \/ \E r \in Reqs : UpdateBind(r)
    \/ \E r \in Reqs : UpdateSeen(r)
    \/ LicGen("a1")
    \/ LicResetHwid("a1")
    \/ Tick

SpecReset == Init /\ [][NextReset]_vars

\* The rate limiter under a stream of requests of two handlers, the clock
\* running on for more than a window
NextRate ==
    \/ \E r \in Reqs, ip \in MainIps, body \in RateBodies : Begin(r, ip, body)
    \/ \E r \in Reqs : ParseBody(r)
    \/ \E r \in Reqs : Select(r)
    \/ \E d \in {1, RATE_LIMIT_WINDOW} :
          /\ now + d <= RATE_LIMIT_WINDOW + MaxTime
          /\ d = 1 => now % RATE_LIMIT_WINDOW < MaxTime
          /\ now' = now + d
          /\ UNCHANGED <<db, seq, rate, req, adm, hin, hout>>

SpecRate == Init /\ [][NextRate]_vars

\* The rate limiter under requests of two sources, the handlers of both in
\* flight together, within one window
NextRateSources ==
    \/ \E r \in Reqs, ip \in Ips : Begin(r, ip, BadJson)
    \/ \E r \in Reqs : ParseBody(r)

SpecRateSources == Init /\ [][NextRateSources]_vars

\* bodies of the requests of one handler that ends in every outcome
FrameBodies == { BadJson, Body(K1, H1), Body(K1, H2) }

\* One handler answering request after request, up to the refusals of the rate
\* limiter, on a license that is created, bound and ages
NextFrame ==
    \/ \E body \in FrameBodies : Begin("r1", "ip1", body)
    \/ ParseBody("r1")
    \/ Select("r1")
    \/ UpdateBind("r1")
    \/ UpdateSeen("r1")
    \/ LicGen("a1")
    \/ Tick

SpecFrame == Init /\ [][NextFrame]_vars

\* /lic_delete, and the /lic_gen after it, falling between the read and the
\* write of an activation of the license first created
NextDelete ==
    \/ \E r \in Reqs, body \in {Body(K1, H1)} :
          /\ req[r].pc = "idle"
          /\ Begin(r, "ip1", body)
    \/ \E r \in Reqs : ParseBody(r)
    \/ \E r \in Reqs : Select(r)
    \/ \E r \in Reqs : UpdateBind(r)
    \/ \E r \in Reqs : UpdateSeen(r)
    \/ (seq = 0 \/ \E r \in Reqs : req[r].pc \in {"bind", "seen"}) /\ LicGen("a1")
    \/ (\E r \in Reqs : req[r].pc \in {"bind", "seen"}) /\ LicDelete("a1")

SpecDelete == Init /\ [][NextDelete]_vars

\* The hasher on pairs of raw inputs
NextHash == HashKeys \/ HashHwids \/ HashActivateKeys \/ HashActivateHwids

SpecHash == InitHash /\ [][NextHash]_vars

(***************************************************************************)
(* Claims                                                                  *)
(***************************************************************************)
Answered(r) == req[r].pc = "done" /\ ~IsNone(req[r].lhash)
AnsweredOk(r) == Answered(r) /\ Val(req[r].resp).ok
AnsweredWith(r, message) ==
    Answered(r) /\ ~Val(req[r].resp).ok /\ Val(req[r].resp).message = message

\* the rows of the store a handler's SELECT matches
Matching(r) == { x \in db : Some(x.license_hash) = req[r].lhash }

\* handler r takes its SELECT step
Selects(r) == req[r].pc = "select" /\ req'[r].pc # "select"

\* handler r takes its UPDATE step and returns
Updates(r) == req[r].pc \in {"bind", "seen"} /\ req'[r].pc = "done"

\* x is neither revoked nor expired for a request stamped t
Usable(x, t) == ~x.revoked /\ (IsNone(x.expires_at) \/ Val(x.expires_at) >= t)

InvalidResponse == [status |-> 401, ok |-> FALSE, message |-> "invalid"]

\* C1: two overlapping activations of the same license (never reset, never
\* deleted) with two different hwids never both return ok.
C1_NeverTwoOk ==
    \A r1 \in Reqs, r2 \in Reqs :
        ~( /\ r1 # r2
           /\ AnsweredOk(r1)
           /\ AnsweredOk(r2)
           /\ req[r1].lhash = req[r2].lhash
           /\ req[r1].hh # req[r2].hh )

\* C2: an activation that reads a usable license unbound goes on to bind it
\* to its hwid and returns ok(bound=true, expires_at); one that reads it bound
\* to its own hwid returns ok; one that reads it bound to another hwid
\* returns hwid_mismatch.
C2_BindThenSameDeviceOnly ==
    [][\A r \in Reqs :
        /\ Selects(r) =>
              \A x \in Matching(r) :
                  Usable(x, Val(req[r].t)) =>
                      /\ IsNone(x.hwid_hash) => req'[r].pc = "bind"
                      /\ x.hwid_hash = req[r].hh => req'[r].pc = "seen"
                      /\ (~IsNone(x.hwid_hash) /\ x.hwid_hash # req[r].hh) =>
                            /\ req'[r].pc = "done"
                            /\ Val(req'[r].resp) =
                                 [status |-> 401, ok |-> FALSE, message |-> "hwid_mismatch"]
        /\ Updates(r) =>
              /\ Val(req'[r].resp) =
                   [status |-> 200, ok |-> TRUE,
                    expires_at |-> Val(req[r].row).expires_at, bound |-> TRUE]
              /\ req[r].pc = "bind" =>
                    \A x \in db' : x.id = Val(req[r].row).lic_id => x.hwid_hash = req[r].hh
    ]_vars

\* a first activation bound the license, a later one from another device was
\* refused
C2_Witness ==
    \E r1 \in Reqs, r2 \in Reqs :
        /\ AnsweredOk(r1)
        /\ IsNone(Val(req[r1].row).bound_hwid)
        /\ AnsweredWith(r2, "hwid_mismatch")
        /\ Val(req[r2].row).bound_hwid = req[r1].hh
        /\ \E x \in db : x.id = Val(req[r1].row).lic_id /\ x.hwid_hash = req[r1].hh

\* C3: an activation whose SELECT finds the license revoked returns invalid,
\* whatever the hwid, the binding and expires_at.
C3_RevokedIsInvalid ==
    [][\A r \in Reqs :
        Selects(r) =>
            \A x \in Matching(r) :
                x.revoked => /\ req'[r].pc = "done"
                             /\ Val(req'[r].resp) = InvalidResponse
    ]_vars

\* invalid was answered for a revoked license that is expired and bound to
\* another device
C3_Witness ==
    \E r \in Reqs :
        /\ AnsweredWith(r, "invalid")
        /\ ~IsNone(req[r].row)
        /\ Val(req[r].row).revoked
        /\ ~IsNone(Val(req[r].row).expires_at)
        /\ Val(Val(req[r].row).expires_at) < Val(req[r].t)
        /\ ~IsNone(Val(req[r].row).bound_hwid)
        /\ Val(req[r].row).bound_hwid # req[r].hh

\* C4: an activation whose SELECT finds the license unrevoked with
\* expires_at < t (t the request's now_ts()) returns expired whatever the hwid
\* and the binding; with expires_at = t or expires_at NULL it does not.
C4_ExpiredIffPastExpiry ==
    [][\A r \in Reqs :
        Selects(r) =>
            \A x \in Matching(r) :
                ~x.revoked =>
                    IF ~IsNone(x.expires_at) /\ Val(x.expires_at) < Val(req[r].t)
                    THEN /\ req'[r].pc = "done"
                         /\ Val(req'[r].resp) =
                              [status |-> 401, ok |-> FALSE, message |-> "expired"]
                    ELSE req'[r].pc = "done" => Val(req'[r].resp).message # "expired"
    ]_vars

\* one activation was answered ok in the last second of the license, another,
\* from another device, expired a second later
C4_Witness ==
    \E r1 \in Reqs, r2 \in Reqs :
        /\ AnsweredOk(r1)
        /\ Val(req[r1].row).expires_at = req[r1].t
        /\ AnsweredWith(r2, "expired")
        /\ ~Val(req[r2].row).revoked
        /\ ~IsNone(Val(req[r2].row).bound_hwid)
        /\ Val(req[r2].row).bound_hwid # req[r2].hh

\* C5: the answer to an unknown key, to a revoked key (bound or not, expired
\* or not) and to a key or hwid of a length out of range is the same 401
\* invalid response.
C5_InvalidTellsNothing ==
    [][\A r \in Reqs :
        /\ Selects(r) /\ (Matching(r) = {} \/ \E x \in Matching(r) : x.revoked) =>
              /\ req'[r].pc = "done"
              /\ Val(req'[r].resp) = InvalidResponse
        /\ ( /\ req[r].pc = "json"
             /\ req'[r].pc # "json"
             /\ Val(req[r].body).valid_json
             /\ \/ Len(Upper(Strip(Val(req[r].body).license_key))) \notin MinKeyLen..MaxKeyLen
                \/ Len(Lower(Strip(Val(req[r].body).hwid))) \notin MinHwidLen..MaxHwidLen ) =>
              /\ req'[r].pc = "done"
              /\ Val(req'[r].resp) = InvalidResponse
    ]_vars

\* one handler answered an unknown key, the other a revoked, expired license
\* bound to another device: the same response
C5_Witness ==
    \E r1 \in Reqs, r2 \in Reqs :
        /\ Answered(r1)
        /\ IsNone(req[r1].row)
        /\ Answered(r2)
        /\ ~IsNone(req[r2].row)
        /\ Val(req[r2].row).revoked
        /\ ~IsNone(Val(req[r2].row).expires_at)
        /\ Val(Val(req[r2].row).expires_at) < Val(req[r2].t)
        /\ req[r1].resp = req[r2].resp

\* C10: a request whose normalized key is shorter than 10 or longer than 128
\* characters, or whose normalized hwid is shorter than 16 or longer than 128,
\* is answered invalid at once: nothing is hashed, no row is read, the store
\* is unchanged.  Every other request goes on to the store lookup.
C10_FailFast ==
    [][\A r \in Reqs :
        (req[r].pc = "json" /\ req'[r].pc # "json" /\ Val(req[r].body).valid_json) =>
            LET k == Upper(Strip(Val(req[r].body).license_key))
                h == Lower(Strip(Val(req[r].body).hwid))
            IN IF Len(k) >= 10 /\ Len(k) <= 128 /\ Len(h) >= 16 /\ Len(h) <= 128
               THEN req'[r].pc = "select"
               ELSE /\ req'[r].pc = "done"
                    /\ Val(req'[r].resp) = InvalidResponse
                    /\ IsNone(req'[r].lhash)
                    /\ IsNone(req'[r].row)
                    /\ db' = db
    ]_vars

\* the key of a stored, unrevoked, unexpired license was refused for the
\* length of the hwid sent with it
C10_Witness ==
    \E r \in Reqs :
        /\ req[r].pc = "done"
        /\ req[r].resp = Some(InvalidResponse)
        /\ IsNone(req[r].lhash)
        /\ ~IsNone(req[r].body)
        /\ Len(Strip(Val(req[r].body).hwid)) \in {MinHwidLen - 1, MaxHwidLen + 1}
        /\ \E x \in db :
              /\ x.license_hash = hash_license_key(normalize_key(Val(req[r].body).license_key))
              /\ Usable(x, now)

\* admin command a's db_add_time runs its SELECT
AddTimeSelects(a) ==
    /\ adm[a].pc \in {"idle", "done"}
    /\ adm'[a] # adm[a]
    /\ adm'[a].op = "add_time"

\* admin command a's db_add_time runs its UPDATE and returns
AddTimeUpdates(a) == adm[a].pc = "update" /\ adm'[a].pc = "done"

\* the rows of the store the statements of admin command a match (primed
\* locals: the hash is computed in the step that reads)
AddTimeRows(a) == { x \in db : Some(x.license_hash) = adm'[a].lhash }

\* C6: addTime(key, S) on an existing license with a non-null expiresAt sets
\* expiresAt to max(currentExpiresAt, now) + S: now + S when the license has
\* already expired, old expiresAt + S when it is still valid; the value
\* returned is the stored new expiresAt.  Per call: the SELECT that reads such
\* a license computes that value, the UPDATE stores it in the license and in
\* nothing else and returns it.
C6_AddTimeFromMaxOfExpiryAndNow ==
    [][\A a \in Admins :
        /\ AddTimeSelects(a) =>
             \A x \in AddTimeRows(a) :
                ~IsNone(x.expires_at) =>
                   LET old == Val(x.expires_at)
                       S == Val(adm'[a].add_seconds)
                   IN /\ adm'[a].pc = "update"
                      /\ adm'[a].new_exp = Some(IF old < now THEN now + S ELSE old + S)
                      /\ db' = db
        /\ AddTimeUpdates(a) =>
             /\ adm'[a].new_exp = adm[a].new_exp
             /\ adm'[a].ret = Some(<<TRUE, ToString(Val(adm[a].new_exp))>>)
             /\ db' = { IF Some(x.license_hash) = adm[a].lhash
                        THEN [x EXCEPT !.expires_at = adm[a].new_exp] ELSE x : x \in db }
             /\ \A y \in db' : Some(y.license_hash) = adm[a].lhash =>
                                  adm'[a].ret = Some(<<TRUE, ToString(Val(y.expires_at))>>)
      ]_vars

\* an expired license was extended: the call read an expiry in the past, and
\* the license now carries now + S, the value the call returned, not old + S
C6_Witness ==
    \E a \in Admins :
        /\ adm[a].pc = "done" /\ adm[a].op = "add_time"
        /\ ~IsNone(adm[a].new_exp)
        /\ LET old == Val(Val(adm[a].row).expires_at)
               new == Val(adm[a].new_exp)
           IN /\ new > old + Val(adm[a].add_seconds)
              /\ adm[a].ret = Some(<<TRUE, ToString(new)>>)
              /\ \E x \in db : /\ Some(x.license_hash) = adm[a].lhash
                               /\ x.expires_at = Some(new)
                               /\ ~IsNone(x.hwid_hash)

\* C7: addTime on a lifetime license (expiresAt = null) returns the lifetime
\* no-op outcome and leaves every field of every record unchanged; addTime on
\* an unknown key returns notFound and changes nothing.  Both return from the
\* step that reads, so no UPDATE of the call follows.
C7_AddTimeNoOps ==
    [][\A a \in Admins :
        AddTimeSelects(a) =>
           /\ AddTimeRows(a) = {} =>
                /\ adm'[a].pc = "done"
                /\ adm'[a].ret = Some(<<FALSE, "not_found">>)
                /\ db' = db
           /\ \A x \in AddTimeRows(a) :
                IsNone(x.expires_at) =>
                   /\ adm'[a].pc = "done"
                   /\ adm'[a].ret = Some(<<TRUE, "lifetime_noop">>)
                   /\ db' = db
      ]_vars

\* addTime returned from a bound lifetime license, which is still in the
\* store as it was
C7_Witness ==
    \E a \in Admins :
        /\ adm[a].pc = "done" /\ adm[a].op = "add_time"
        /\ adm[a].row = Some([expires_at |-> None])
        /\ adm[a].ret = Some(<<TRUE, "lifetime_noop">>)
        /\ \E x \in db : /\ Some(x.license_hash) = adm[a].lhash
                         /\ IsNone(x.expires_at)
                         /\ ~IsNone(x.hwid_hash)

\* a request of handler r from source ip passes through the rate limiter (a
\* rejected request of a handler that already holds a rejection changes nothing)
RateGate(r, ip) ==
    /\ req[r].pc \in {"idle", "done"}
    /\ req'[r] # req[r]
    /\ ip \in DOMAIN rate'

\* C8: with limit N and window W, a source with no recorded window has its
\* first N requests within one window accepted, every further request within
\* that window rejected as rate_limited with the window left as it is, and
\* the first request after the window has elapsed (the clock past the
\* window's deadline) accepted, starting a window of count 1 and deadline
\* now + W.  The count of a window is the number of its accepted requests.
C8_RateLimiterWindow ==
    [][\A r \in Reqs, ip \in MainIps :
        RateGate(r, ip) =>
           LET accepted == req'[r].pc = "json"
               rejected == /\ req'[r].pc = "done"
                           /\ req'[r].resp = Some(Fail(429, "rate_limited"))
           IN /\ accepted \/ rejected
              /\ ip \notin DOMAIN rate =>
                   /\ accepted
                   /\ rate'[ip] = [count |-> 1, reset |-> now + RATE_LIMIT_WINDOW]
              /\ ip \in DOMAIN rate =>
                   /\ rate[ip].count >= 1 /\ rate[ip].count <= RATE_LIMIT_MAX
                   /\ now > rate[ip].reset =>
                        /\ accepted
                        /\ rate'[ip] = [count |-> 1, reset |-> now + RATE_LIMIT_WINDOW]
                   /\ (now <= rate[ip].reset /\ rate[ip].count < RATE_LIMIT_MAX) =>
                        /\ accepted
                        /\ rate'[ip] = [count |-> rate[ip].count + 1,
                                        reset |-> rate[ip].reset]
                   /\ (now <= rate[ip].reset /\ rate[ip].count = RATE_LIMIT_MAX) =>
                        /\ rejected
                        /\ rate' = rate
      ]_vars

\* one handler holds the rejection of a request beyond the N-th of the first
\* window, and the other the first request of the window after it
C8_Witness ==
    /\ req["r2"].pc = "done"
    /\ req["r2"].resp = Some(Fail(429, "rate_limited"))
    /\ req["r1"].pc = "json"
    /\ "ip1" \in DOMAIN rate
    /\ now > RATE_LIMIT_WINDOW
    /\ rate["ip1"] = [count |-> 1, reset |-> now + RATE_LIMIT_WINDOW]

\* C9: hashKey gives one digest for any two keys that differ only in letter
\* case and surrounding whitespace, and hashHwid one digest for any two
\* hardware identifiers that differ only in letter case and surrounding
\* whitespace.
C9_HashIgnoresCaseAndSpace ==
    (/\ ~IsNone(hout)
     /\ Val(hout).fn \in {"hash_license_key", "hash_hwid"}
     /\ Upper(Strip(Val(hin).a)) = Upper(Strip(Val(hin).b)))
        => Val(hout).a = Val(hout).b

\* admin command a's db_reset_hwid runs (no other command or handler moves
\* in the step)
ResetHwids(a) ==
    /\ adm[a].pc \in {"idle", "done"}
    /\ adm'[a].op = "reset_hwid"
    /\ \A b \in Admins \ {a} : adm'[b] = adm[b]
    /\ req' = req /\ now' = now
    /\ adm'[a] # adm[a] \/ db' # db

\* C11: resetHwid(key) on an existing license sets its hwid_hash to NULL and
\* returns true, and for an unknown key returns false and changes nothing; no
\* other field and no other license is touched.  The next activation of that
\* unrevoked, unexpired license reads it unbound: whatever its hwid, it binds
\* the license to that hwid and returns ok.
C11_ResetThenRebind ==
    [][/\ \A a \in Admins :
            ResetHwids(a) =>
               LET h == Val(adm'[a].lhash) IN
                 /\ db' = { IF x.license_hash = h THEN [x EXCEPT !.hwid_hash = None] ELSE x
                            : x \in db }
                 /\ adm'[a].ret = Some(\E x \in db : x.license_hash = h)
                 /\ (\A x \in db : x.license_hash # h) => db' = db
       /\ \A r \in Reqs :
            /\ Selects(r) =>
                 \A x \in Matching(r) :
                    (Usable(x, Val(req[r].t)) /\ IsNone(x.hwid_hash)) => req'[r].pc = "bind"
            /\ (Updates(r) /\ req[r].pc = "bind") =>
                 /\ Val(req'[r].resp).ok /\ Val(req'[r].resp).status = 200
                 /\ \A x \in db : x.id = Val(req[r].row).lic_id =>
                       [x EXCEPT !.hwid_hash = req[r].hh, !.last_seen_at = req[r].t] \in db'
      ]_vars

\* the license was bound by a first device, reset, and bound again by the
\* next request, which came from another device after the first was answered
C11_Witness ==
    /\ AnsweredOk("r1") /\ AnsweredOk("r2")
    /\ req["r1"].lhash = req["r2"].lhash
    /\ req["r1"].hh # req["r2"].hh
    /\ IsNone(Val(req["r2"].row).bound_hwid)
    /\ Val(req["r2"].t) > Val(req["r1"].t)
    /\ \E a \in Admins :
          /\ adm[a].op = "reset_hwid" /\ adm[a].ret = Some(TRUE)
          /\ adm[a].lhash = req["r2"].lhash
    /\ \E x \in db : Some(x.license_hash) = req["r2"].lhash /\ x.hwid_hash = req["r2"].hh

\* C12: under every interleaving of create, activation, revoke, addTime,
\* resetHwid and delete, a non-null hwid_hash of a license is never replaced
\* by a different non-null value: no activation overwrites a binding.
C12_BindingNeverOverwritten ==
    [][\A x \in db, y \in db' :
          (x.id = y.id /\ ~IsNone(x.hwid_hash) /\ ~IsNone(y.hwid_hash))
             => y.hwid_hash = x.hwid_hash
      ]_vars

\* handler r is answered rate_limited
Refused(r) ==
    /\ req[r].pc \in {"idle", "done"}
    /\ req'[r] # req[r]
    /\ req'[r].pc = "done"
    /\ req'[r].resp = Some(Fail(429, "rate_limited"))

\* C13: a request rejected as rate_limited finds its source's count at N
\* within the current window and leaves the recorded count and deadline as
\* they are (no other source's entry changes either), and the count stored
\* for a source never exceeds N.
C13_RefusalLeavesWindow ==
    [][/\ \A r \in Reqs :
            Refused(r) =>
               /\ rate' = rate
               /\ \E ip \in DOMAIN rate : /\ rate[ip].count = RATE_LIMIT_MAX
                                         /\ now <= rate[ip].reset
       /\ \A ip \in DOMAIN rate' : rate'[ip].count <= RATE_LIMIT_MAX
      ]_vars

\* both handlers hold a refusal in the last second of the window that began
\* at 0: the count is still N and the deadline still W
C13_Witness ==
    /\ \A r \in Reqs : req[r].pc = "done" /\ req[r].resp = Some(Fail(429, "rate_limited"))
    /\ "ip1" \in DOMAIN rate
    /\ rate["ip1"] = [count |-> RATE_LIMIT_MAX, reset |-> RATE_LIMIT_WINDOW]
    /\ now = RATE_LIMIT_WINDOW

\* C14: addTime is atomic with respect to other mutations of the record: no
\* interleaving of the reads and writes of overlapping addTime calls loses an
\* extension, so every addTime write of S moves the stored expiresAt at least
\* S beyond the value stored just before it (with two overlapping calls and
\* the clock standing still, to max(old, now) + S1 + S2).
C14_AddTimeNoLostUpdate ==
    [][\A a \in Admins :
          AddTimeUpdates(a) =>
             \A x \in db, y \in db' :
                (x.id = y.id /\ Some(x.license_hash) = adm[a].lhash /\ ~IsNone(x.expires_at))
                   => Val(y.expires_at) >= Val(x.expires_at) + Val(adm[a].add_seconds)
      ]_vars

\* handler r's request is let through the rate limiter
Admitted(r) == req[r].pc \in {"idle", "done"} /\ req'[r].pc = "json"

\* the entry of source ip is the same before and after the step
SameEntry(ip) ==
    /\ ip \in DOMAIN rate <=> ip \in DOMAIN rate'
    /\ ip \in DOMAIN rate => rate'[ip] = rate[ip]

\* C15: each rate-limit check is one indivisible read-modify-write on its
\* source's entry, whatever other handlers are in flight: a request let
\* through adds exactly one to the count of exactly one source (or opens its
\* window with count 1), a refused one changes nothing, so no increment is
\* lost, no source has more than N requests accepted in a window, and a check
\* for one source never changes the entry of another.
C15_RateCheckIndivisible ==
    [][/\ \A r \in Reqs :
            /\ Admitted(r) =>
                 \E ip \in Ips :
                    /\ ip \in DOMAIN rate'
                    /\ \/ /\ ip \notin DOMAIN rate \/ now > rate[ip].reset
                          /\ rate'[ip] = [count |-> 1, reset |-> now + RATE_LIMIT_WINDOW]
                       \/ /\ ip \in DOMAIN rate
                          /\ now <= rate[ip].reset
                          /\ rate[ip].count < RATE_LIMIT_MAX
                          /\ rate'[ip] = [count |-> rate[ip].count + 1,
                                          reset |-> rate[ip].reset]
                    /\ \A other \in Ips \ {ip} : SameEntry(other)
            /\ Refused(r) => \A ip \in Ips : SameEntry(ip)
       /\ (\A r \in Reqs : ~Admitted(r)) => \A ip \in Ips : SameEntry(ip)
       /\ \A ip \in DOMAIN rate' : rate'[ip].count <= RATE_LIMIT_MAX
      ]_vars

\* a request of the exhausted source is refused while a handler is in
\* flight, and the other source's entry counts its own single request
C15_Witness ==
    /\ req["r1"].pc = "json"
    /\ req["r2"].pc = "done" /\ req["r2"].resp = Some(Fail(429, "rate_limited"))
    /\ DOMAIN rate = Ips
    /\ rate["ip1"].count = RATE_LIMIT_MAX
    /\ rate["ip2"].count = 1

\* C16: last_seen_at of a license is NULL until its first successful
\* activation and afterwards is the timestamp of the most recent successful
\* activation; under overlapping activations by the bound device it never
\* moves back to the timestamp of an earlier request.  Stated of the refresh
\* an activation by the bound device writes.
C16_LastSeenNeverMovesBack ==
    [][\A x \in db, y \in db' :
          (/\ \E r \in Reqs : req[r].pc = "seen" /\ req'[r].pc = "done"
           /\ x.id = y.id
           /\ ~IsNone(x.hwid_hash)
           /\ y.hwid_hash = x.hwid_hash
           /\ ~IsNone(x.last_seen_at))
             => /\ ~IsNone(y.last_seen_at)
                /\ Val(y.last_seen_at) >= Val(x.last_seen_at)
      ]_vars

\* C17: create never fails on a collision: when the generated key hashes to
\* the license_hash of a stored license, generation is retried, so create
\* returns a key whose record is persisted; no two stored licenses share a
\* license_hash.
C17_CreateSurvivesCollision ==
    /\ \A a \in Admins :
          (adm[a].pc = "done" /\ adm[a].op = "create") =>
             /\ Val(adm[a].ret).raised = ""
             /\ ~IsNone(Val(adm[a].ret).key)
             /\ \E x \in db : x.license_hash = hash_license_key(Val(Val(adm[a].ret).key))
    /\ \A x \in db, y \in db : x.license_hash = y.license_hash => x = y

\* y is x with at most hwid_hash and last_seen_at changed
SameButBinding(x, y) ==
    /\ y.id = x.id
    /\ y.license_hash = x.license_hash
    /\ y.created_at = x.created_at
    /\ y.created_by = x.created_by
    /\ y.expires_at = x.expires_at
    /\ y.revoked = x.revoked

\* C18: an activation that ends in rate_limited, bad_json, invalid, expired or
\* hwid_mismatch leaves every license record unchanged; only an ok outcome
\* writes to the store, and it writes only hwid_hash and last_seen_at of the
\* license it matched.
C18_OnlyOkWrites ==
    [][req' # req =>
         /\ \A r \in Reqs :
               (req'[r] # req[r] /\ req'[r].pc = "done" /\ ~Val(req'[r].resp).ok)
                  => /\ Val(req'[r].resp).message \in
                          {"rate_limited", "bad_json", "invalid", "expired", "hwid_mismatch"}
                     /\ db' = db
         /\ db' # db =>
               \E r \in Reqs :
                  /\ Updates(r)
                  /\ Val(req'[r].resp).ok
                  /\ Cardinality(db') = Cardinality(db)
                  /\ \A x \in db : \E y \in db' :
                        /\ SameButBinding(x, y)
                        /\ y # x => x.id = Val(req[r].row).lic_id
      ]_vars

\* a request was refused by the rate limiter while the store held a bound
\* license with an expiry, which is still as the last ok activation left it
C18_Witness ==
    /\ req["r1"].pc = "done"
    /\ req["r1"].resp = Some(Fail(429, "rate_limited"))
    /\ \E x \in db : /\ ~IsNone(x.hwid_hash)
                     /\ ~IsNone(x.expires_at)
                     /\ ~IsNone(x.last_seen_at)
                     /\ Val(x.last_seen_at) < now

\* a request arrives at handler r
Arrives(r) == req[r].pc \in {"idle", "done"} /\ req'[r] # req[r]

\* source ip is over its limit within its current window
OverLimit(ip) ==
    /\ ip \in DOMAIN rate
    /\ now <= rate[ip].reset
    /\ rate[ip].count >= RATE_LIMIT_MAX

\* C19: the rate-limit gate runs before body parsing and input validation:
\* every arriving request, malformed or out of range included, is either
\* refused with 429 rate_limited when its source is over the limit, or let
\* through at the cost of one unit of the source's quota; bad_json (400) and
\* invalid (401) are only answered to a request that passed the gate, and
\* answering them costs no further quota.
C19_GateBeforeParsing ==
    [][\A r \in Reqs :
          /\ Arrives(r) =>
               \E ip \in MainIps :
                  /\ req'[r].body \in { Some(b) : b \in RateBodies }
                  /\ IF OverLimit(ip)
                     THEN /\ req'[r].pc = "done"
                          /\ req'[r].resp = Some(Fail(429, "rate_limited"))
                          /\ rate' = rate
                     ELSE /\ req'[r].pc = "json"
                          /\ req'[r].resp = None
                          /\ ip \in DOMAIN rate'
                          /\ rate'[ip].count =
                               IF ip \in DOMAIN rate /\ now <= rate[ip].reset
                               THEN rate[ip].count + 1 ELSE 1
          /\ (/\ req'[r] # req[r]
              /\ req'[r].pc = "done"
              /\ Val(req'[r].resp).status \in {400, 401})
                => /\ req[r].pc \in {"json", "select"}
                   /\ rate' = rate
      ]_vars

\* a malformed request over the limit was answered rate_limited, and another
\* malformed request, which had passed the gate, bad_json
C19_Witness ==
    /\ req["r1"].pc = "done"
    /\ req["r1"].body = Some(BadJson)
    /\ req["r1"].resp = Some(Fail(429, "rate_limited"))
    /\ req["r2"].pc = "done"
    /\ req["r2"].body = Some(BadJson)
    /\ req["r2"].resp = Some(Fail(400, "bad_json"))
    /\ "ip1" \in DOMAIN rate /\ rate["ip1"].count = RATE_LIMIT_MAX

\* C20: an activation's write (bind or refresh) only modifies the record it
\* read: every record with another id is left as it is, no record appears,
\* and when the license it read has been deleted the write changes nothing,
\* also when licenses were created in between, because an id is assigned
\* once, above every id assigned before, and never reused.
C20_WriteOnlyTheRecordRead ==
    [][/\ \A r \in Reqs :
            Updates(r) =>
               LET lic_id == Val(req[r].row).lic_id IN
                 /\ \A x \in db : x.id # lic_id => x \in db'
                 /\ \A y \in db' : \E x \in db : x.id = y.id /\ SameButBinding(x, y)
                 /\ (\A x \in db : x.id # lic_id) => db' = db
       /\ \A x \in db : x.id <= seq
       /\ seq' >= seq
       /\ \A y \in db' : (\A x \in db : x.id # y.id) => (y.id > seq /\ y.id = seq')
      ]_vars

\* both activations read license 1 and were answered ok; it was deleted, and
\* license 2 created with the same key, while one of them stood between its
\* read and its write, and license 2 is unbound and never seen
C20_Witness ==
    /\ \A r \in Reqs : AnsweredOk(r) /\ Val(req[r].row).lic_id = 1
    /\ \A x \in db : x.id # 1
    /\ \E x \in db : /\ x.id = 2
                     /\ Some(x.license_hash) = req["r1"].lhash
                     /\ IsNone(x.hwid_hash)
                     /\ IsNone(x.last_seen_at)
====
